---- MODULE Spec2Model ----
(***************************************************************************)
(* A model of the fetcha-bot polling pipeline: the per-source rate limiter *)
(* (src/rate_limiter.py), the processed-id store (src/utils/data.py) and   *)
(* the two polling jobs fetch_news and fetch_tweets (src/main.py).         *)
(*                                                                         *)
(* Time is an integer clock `now` (time.time()).  The rate windows and     *)
(* budgets of the program (900 s / 180, 60 s / 60, 1000 ids) are scaled    *)
(* down to small numbers; the scaled values are the bounds of the model.   *)
(***************************************************************************)
EXTENDS Integers, Sequences, FiniteSets, TLC

VARIABLES
    now,        \* time.time(): the wall clock, in seconds
    rl,         \* the RateLimiter object: remaining, last_reset, requests
    grants,     \* history: per api, the times at which check_rate_limit granted
    updated,    \* history: the apis whose budget was overwritten by provider data
    calls,      \* history: the number of RateLimiter calls made so far
    last,       \* history: the RateLimiter call just made, with what it found
    subject,    \* the api the callers of one behaviour address
    dsMem,      \* the processed ids in memory: [news, tweets -> set of ids]
    dsFile,     \* data/processed_ids.json
    dsSnap,     \* history: the sets handed to the last save_processed_ids
    dsLast,     \* history: the store operation just made
    feed,       \* the provider: per influencer, the ids of the tweets it has posted
    twFile,     \* processed_tweets.json
    tw,         \* fetch_tweets: its position and its local variables
    hist,       \* history of the tweet job: analyses and sends per id, crashes, failures
    newsFeed,   \* the provider: per category, the ids of the articles it lists
    nwFile,     \* processed_news.json
    nw,         \* fetch_news: its position and its local variables
    nhist,      \* history of the news job: analyses per article id
    mn,         \* main(): its position, the scheduler's job and the fetch_tweets invocations
    ta,         \* TwitterAPI: its rate-limit record, request times and get_recent_tweets
    bot_stats   \* BotStats: the four counters

rlVars == <<now, rl, grants, updated, calls, last, subject>>

dsVars == <<dsMem, dsFile, dsSnap, dsLast>>

twVars == <<feed, twFile, tw, hist>>

nwVars == <<newsFeed, nwFile, nw, nhist>>

vars == <<rlVars, dsVars, twVars, nwVars, mn, ta, bot_stats>>

(***************************************************************************)
(* Bounds.                                                                 *)
(***************************************************************************)
StartTime == 4          \* the clock at process start (time.time() is far above any window)
MaxTime == 7            \* the clock stops here
MaxCalls == 4           \* at most this many RateLimiter calls in one behaviour
TwitterWindow == 3      \* stands for 900 s
ShortWindow == 2        \* stands for 60 s (finnhub, grok)
MaxReq == 2             \* stands for max_requests (180 / 60 / 60)
FinnhubInitial == 1     \* stands for finnhub's initial remaining (30 of 60)
Cap == 1                \* stands for the 1000-id cap of save_processed_ids
MaxId == 2              \* item ids are 1 .. MaxId
NumInfluencers == 2     \* stands for the 11 accounts of INFLUENCERS
MaxTweet == 2           \* tweet ids are 1 .. MaxTweet
NumCategories == 2      \* stands for the 4 categories of fetch_news
MaxArticle == 3         \* article ids are 1 .. MaxArticle
MisfireGrace == 1       \* stands for misfire_grace_time = 120 s
MaxCrashes == 1         \* at most this many process restarts in one behaviour
MaxResetAhead == 2      \* a provider's reset time lies at most this far ahead of the clock
MaxRuns == 2            \* at most this many invocations of get_recent_tweets in one behaviour
MaxCount == 4           \* the counters of bot_stats are followed until their sum is this
DequeLen == 1           \* stands for the maxlen = 100 of TwitterAPI._request_timestamps
DefaultLimit == 2       \* stands for TwitterAPI._max_requests_per_window = 300

(***************************************************************************)
(* RateLimiter.__init__                                                    *)
(***************************************************************************)
Apis == {"twitter", "finnhub", "grok"}

Window(api) == IF api = "twitter" THEN TwitterWindow ELSE ShortWindow

MaxRequests(api) == MaxReq

InitialRemaining(api) == IF api = "finnhub" THEN FinnhubInitial ELSE MaxReq

\* last_reset is an empty dict at construction: NoReset marks a missing key
NoReset == -1

RateLimiterInit ==
    [ remaining  |-> [a \in Apis |-> InitialRemaining(a)],
      last_reset |-> [a \in Apis |-> NoReset],
      requests   |-> [a \in Apis |-> <<>>] ]

\* self.last_reset.get(api, 0)
LastResetGet(r, api) ==
    IF r.last_reset[api] = NoReset THEN 0 ELSE r.last_reset[api]

\* window_end = self.last_reset.get(api, 0) + self.rate_limits[api]['window']
WindowEnd(r, api) == LastResetGet(r, api) + Window(api)

(***************************************************************************)
(* RateLimiter.check_rate_limit(api) at time t.  The result is the new     *)
(* limiter and the outcome: "granted" is the return (True, 0); on the      *)
(* denial path the code evaluates random.uniform, and rate_limiter.py does *)
(* not import random, so the call raises NameError instead of returning    *)
(* (False, wait).                                                          *)
(***************************************************************************)
check_rate_limit_logsBeforeDeciding(r, api, t) ==
    LET window_end == WindowEnd(r, api)
        expired == t > window_end
        r1 == IF expired
              THEN [r EXCEPT !.remaining[api] = MaxRequests(api),
                             !.last_reset[api] = t]
              ELSE r
        r2 == [r1 EXCEPT !.requests[api] = Append(@, t)]
    IN  IF r2.remaining[api] <= 0
        THEN [rl |-> r2, outcome |-> "NameError"]
        ELSE [rl |-> [r2 EXCEPT !.remaining[api] = @ - 1],
              outcome |-> "granted"]

check_rate_limit_resetAtEnd(r, api, t) ==
    LET expired == t >= WindowEnd(r, api)
        r1 == IF expired
              THEN [r EXCEPT !.remaining[api] = MaxRequests(api),
                             !.last_reset[api] = t]
              ELSE r
    IN  IF r1.remaining[api] <= 0
        THEN [rl |-> r1, outcome |-> "NameError"]
        ELSE [rl |-> [r1 EXCEPT !.requests[api] = Append(@, t),
                                !.remaining[api] = @ - 1],
              outcome |-> "granted"]

check_rate_limit(r, api, t) ==
    LET window_end == WindowEnd(r, api)
        expired == t > window_end
        r1 == IF expired
              THEN [r EXCEPT !.remaining[api] = MaxRequests(api),
                             !.last_reset[api] = t]
              ELSE r
    IN  IF r1.remaining[api] <= 0
        THEN [rl |-> r1, outcome |-> "NameError"]
        ELSE [rl |-> [r1 EXCEPT !.requests[api] = Append(@, t),
                                !.remaining[api] = @ - 1],
              outcome |-> "granted"]

\* RateLimiter.log_request(api) at time t
log_request(r, api, t) ==
    [r EXCEPT !.requests[api] = Append(@, t),
              !.remaining[api] = IF @ - 1 > 0 THEN @ - 1 ELSE 0]

\* RateLimiter.update_from_headers(api, headers): hasRem / hasReset say which
\* of the two header keys are present, rem / reset are their int() values
update_from_headers(r, api, hasRem, rem, hasReset, reset) ==
    LET r1 == IF hasRem THEN [r EXCEPT !.remaining[api] = rem] ELSE r
    IN  IF hasReset THEN [r1 EXCEPT !.last_reset[api] = reset] ELSE r1

\* RateLimiter.update_rate_limit(api, remaining, reset_time): None is "absent"
update_rate_limit(r, api, hasRem, rem, hasReset, reset) ==
    IF api \in Apis
    THEN LET r1 == IF hasRem THEN [r EXCEPT !.remaining[api] = rem] ELSE r
         IN  IF hasReset THEN [r1 EXCEPT !.last_reset[api] = reset] ELSE r1
    ELSE r

\* RateLimiter.get_remaining_requests(api)
get_remaining_requests(r, api) == r.remaining[api]

(***************************************************************************)
(* The limiter alone: any caller, any order of calls, the clock advancing. *)
(***************************************************************************)
NoCall == [op |-> "none", api |-> "none", outcome |-> "none",
           rem |-> NoReset, reset |-> NoReset]

\* the call just made: its operation, its arguments and its outcome
Call(op, api, outcome, rem, reset) ==
    [op |-> op, api |-> api, outcome |-> outcome, rem |-> rem, reset |-> reset]

\* the values a provider reports: a remaining count (its own limit may be
\* above max_requests) and a reset time (epoch seconds, not in the past)
HeaderRemaining == 0 .. (MaxReq + 1)
HeaderReset == now .. (now + MaxResetAhead)

\* the grants of the last Window(api) seconds, the clock being at t
RECURSIVE Recent(_, _, _)
Recent(s, api, t) ==
    IF s = <<>> THEN <<>>
    ELSE IF Head(s) + Window(api) <= t THEN Recent(Tail(s), api, t)
    ELSE s

Tick ==
    /\ now < MaxTime
    /\ now' = now + 1
    /\ grants' = [a \in Apis |-> Recent(grants[a], a, now + 1)]
    /\ last' = NoCall
    /\ UNCHANGED <<rl, updated, calls, subject>>

CheckRateLimit(api) ==
    /\ calls < MaxCalls
    /\ calls' = calls + 1
    /\ LET res == check_rate_limit(rl, api, now)
       IN  /\ rl' = res.rl
           /\ grants' = IF res.outcome = "granted"
                        THEN [grants EXCEPT ![api] = Append(@, now)]
                        ELSE grants
           /\ last' = Call("check", api, res.outcome, NoReset, NoReset)
    /\ UNCHANGED <<now, updated, subject>>

LogRequest(api) ==
    /\ calls < MaxCalls
    /\ calls' = calls + 1
    /\ rl' = log_request(rl, api, now)
    /\ last' = Call("log", api, "none", NoReset, NoReset)
    /\ UNCHANGED <<now, grants, updated, subject>>

UpdateFromHeaders(api) ==
    \E hasRem \in BOOLEAN, hasReset \in BOOLEAN :
    \E rem \in HeaderRemaining, reset \in HeaderReset :
        /\ calls < MaxCalls
        /\ calls' = calls + 1
        /\ hasRem \/ hasReset
        /\ ~hasRem => rem = 0
        /\ ~hasReset => reset = now
        /\ rl' = update_from_headers(rl, api, hasRem, rem, hasReset, reset)
        /\ updated' = updated \cup {api}
        /\ last' = Call("headers", api, "none",
                        IF hasRem THEN rem ELSE NoReset,
                        IF hasReset THEN reset ELSE NoReset)
        /\ UNCHANGED <<now, grants, subject>>

UpdateRateLimit(api) ==
    \E hasRem \in BOOLEAN, hasReset \in BOOLEAN :
    \E rem \in HeaderRemaining, reset \in HeaderReset :
        /\ calls < MaxCalls
        /\ calls' = calls + 1
        /\ hasRem \/ hasReset
        /\ ~hasRem => rem = 0
        /\ ~hasReset => reset = now
        /\ rl' = update_rate_limit(rl, api, hasRem, rem, hasReset, reset)
        /\ updated' = updated \cup {api}
        /\ last' = Call("update", api, "none",
                        IF hasRem THEN rem ELSE NoReset,
                        IF hasReset THEN reset ELSE NoReset)
        /\ UNCHANGED <<now, grants, subject>>

(***************************************************************************)
(* The processed-id store of src/utils/data.py.  Ids are strings in the    *)
(* program; the model numbers them.  A Python set has no order of its own: *)
(* list(ids) is some ordering of the set.                                  *)
(***************************************************************************)
Ids == 1 .. MaxId

Categories == {"news", "tweets"}

Range(s) == { s[i] : i \in DOMAIN s }

\* list(ids): the orderings a set can be listed in
Orderings(S) ==
    { s \in [1 .. Cardinality(S) -> S] : \A i, j \in DOMAIN s : s[i] = s[j] => i = j }

\* lst[-n:]
LastN(lst, n) ==
    IF Len(lst) <= n THEN lst ELSE SubSeq(lst, Len(lst) - n + 1, Len(lst))

\* list(ids)[-1000:] if len(ids) > 1000 else list(ids)
CapList(lst) == IF Len(lst) > Cap THEN LastN(lst, Cap) ELSE lst

NoFile == [exists |-> FALSE, news |-> <<>>, tweets |-> <<>>]

\* save_processed_ids(news_ids, tweet_ids): the files it can write
save_processed_ids_keepOneLess(news_ids, tweet_ids) ==
    { [exists |-> TRUE, news |-> LastN(n, Cap - 1), tweets |-> LastN(t, Cap - 1)] :
        n \in Orderings(news_ids), t \in Orderings(tweet_ids) }

save_processed_ids(news_ids, tweet_ids) ==
    { [exists |-> TRUE, news |-> CapList(n), tweets |-> CapList(t)] :
        n \in Orderings(news_ids), t \in Orderings(tweet_ids) }

\* load_processed_ids(): FileNotFoundError gives two empty sets
load_processed_ids(file) ==
    IF file.exists
    THEN [news |-> Range(file.news), tweets |-> Range(file.tweets)]
    ELSE [news |-> {}, tweets |-> {}]

NoSets == [c \in Categories |-> {}]

\* fresh: the marked id was not in the set before
NoStoreOp == [op |-> "none", cat |-> "none", id |-> 0, fresh |-> FALSE]

\* markSeen(c, x): the caller adds the id to the category's set
MarkSeen(c, x) ==
    /\ dsMem' = [dsMem EXCEPT ![c] = @ \cup {x}]
    /\ dsLast' = [op |-> "mark", cat |-> c, id |-> x, fresh |-> x \notin dsMem[c]]
    /\ UNCHANGED <<dsFile, dsSnap>>

SaveProcessedIds ==
    /\ \E f \in save_processed_ids(dsMem["news"], dsMem["tweets"]) : dsFile' = f
    /\ dsSnap' = dsMem
    /\ dsLast' = [NoStoreOp EXCEPT !.op = "save"]
    /\ UNCHANGED dsMem

\* the process stops and starts again: the sets in memory are gone, the file stays
Restart ==
    /\ dsMem' = NoSets
    /\ dsLast' = [NoStoreOp EXCEPT !.op = "restart"]
    /\ UNCHANGED <<dsFile, dsSnap>>

\* load_processed_ids() at startup
LoadProcessedIds ==
    /\ dsLast.op = "restart"
    /\ dsMem' = load_processed_ids(dsFile)
    /\ dsLast' = [NoStoreOp EXCEPT !.op = "load"]
    /\ UNCHANGED <<dsFile, dsSnap>>

(***************************************************************************)
(* fetch_tweets (src/main.py).  One action is the code from one suspension *)
(* point (an await, or a blocking call into the feed, the analysis service *)
(* or the messaging sink) to the next.  The request log of the limiter is  *)
(* written and never read by the job, so the job does not keep it.         *)
(***************************************************************************)
MAX_RETRIES == 3

\* BotStats.__init__.  The jobs write the counters and never read them: kept
\* says whether the behaviour keeps them.  last_send is history: how the last
\* call of send_to_telegram ended ("ok", "failed").
BotStats ==
    [ tweets_processed |-> 0, news_processed |-> 0, messages_sent |-> 0, errors_count |-> 0,
      kept |-> FALSE, last_send |-> "none" ]

Counters == {"tweets_processed", "news_processed", "messages_sent", "errors_count"}

\* bot_stats.<counter> += 1
Inc(s, counter) == IF s.kept THEN [s EXCEPT ![counter] = @ + 1] ELSE s

CIRCUIT_BREAKER_THRESHOLD == 5

Influencers == 1 .. NumInfluencers

TweetIds == 1 .. MaxTweet

Max(S) == CHOOSE x \in S : \A y \in S : y <= x

Min(a, b) == IF a < b THEN a ELSE b

\* a set of ids as the provider lists it: newest (largest id) first
RECURSIVE NewestFirst(_)
NewestFirst(S) ==
    IF S = {} THEN <<>> ELSE <<Max(S)>> \o NewestFirst(S \ {Max(S)})

\* the job's limiter without its write-only request log
Forget(r) == [r EXCEPT !.requests = [a \in Apis |-> <<>>]]

\* set(json.loads(PROCESSED_TWEETS_FILE.read_text())) if the file exists else set()
LoadProcessedTweets(file) == IF file.exists THEN Range(file.ids) ELSE {}

\* PROCESSED_TWEETS_FILE.write_text(json.dumps(list(processed_tweets)))
WriteProcessedTweets(processed) ==
    { [exists |-> TRUE, ids |-> o] : o \in Orderings(processed) }

\* client.get_users_tweets(id, since_id = max(int(t) for t in processed_tweets)):
\* the user's tweets with an id above since_id (all of them when since_id is None)
GetUsersTweets(u, processed) ==
    NewestFirst({ t \in feed[u] : \A q \in processed : t > q })

\* a verdict of grok_analyze: relevant and headline as given, the other
\* fields at the values grok_analyze fills in when the service leaves them
\* out, which are also the values of its failure verdict ("text" stands
\* for the first 140 characters of the analysed text; impact is the integer
\* 5, written as text so that it compares with the labels high, medium and
\* low)
Verdict(relevant, headline) ==
    [ relevant |-> relevant, headline |-> headline, sentiment |-> "Neutral",
      score |-> 5, impact |-> "5", direction |-> "Neutral", assets |-> <<>> ]

\* grok_analyze(texts) for n texts.  upstream.kind = "array": the service
\* answered a JSON array, flags being its entries' relevant fields; the
\* result pairs entries and texts with zip.  Anything else fails to parse
\* and every text gets the failure verdict, relevant = False.
grok_analyze(n, upstream) ==
    IF upstream.kind = "array"
    THEN [i \in 1 .. (IF Len(upstream.flags) < n THEN Len(upstream.flags) ELSE n) |->
             Verdict(upstream.flags[i], "text")]
    ELSE [i \in 1 .. n |-> Verdict(FALSE, "Analysis Failed")]

\* what the analysis service can answer for n texts (an entry's relevant
\* field is a JSON boolean)
Upstreams(n) ==
    { [kind |-> "array", flags |-> f] :
        f \in UNION { [1 .. k -> BOOLEAN] : k \in 0 .. n } }
    \cup { [kind |-> "malformed", flags |-> <<>>] }

\* the rate-limit headers a twitter response carries
ProviderRemaining == {0, 1}
ProviderReset == {now + 1}

NoTweetsFile == [exists |-> FALSE, ids |-> <<>>]

TwLocals ==
    [ pc |-> "idle", idx |-> 0, retries |-> 0,
      user |-> "unbound", tweetsBound |-> FALSE, tweets |-> <<>>,
      processed_tweets |-> {}, batch_tweets |-> <<>>, new_tweets_found |-> FALSE,
      error_counts |-> [u \in Influencers |-> 0],
      todo |-> <<>>, analyses |-> <<>>, i |-> 0, inAnalysis |-> {} ]

NoHistory ==
    [ analysed |-> [t \in TweetIds |-> 0], sent |-> [t \in TweetIds |-> 0],
      crashes |-> 0, seenAtCrash |-> {},
      watch |-> 0, failStreak |-> 0, attempts |-> 0, missed |-> {} ]

\* a count that stops at 2: "more than once" is all the claims ask
Bump(n) == IF n < 2 THEN n + 1 ELSE n

\* the consecutive failed fetches of the watched influencer (hist.watch, 0 for
\* nobody), counted up to the threshold; ok says whether the fetch succeeded
\* The retry loop is left: its fetch attempts are no longer counted.
RecordFetch(h, u, ok) ==
    IF u # h.watch THEN [h EXCEPT !.attempts = 0]
    ELSE [h EXCEPT !.attempts = 0,
                   !.failStreak =
                      IF ok THEN 0
                      ELSE IF @ < CIRCUIT_BREAKER_THRESHOLD THEN @ + 1 ELSE @]

\* get_users_tweets answered for influencer u with the tweets found, the
\* invocation's processed_tweets being processed: missed is the tweets of the
\* watched influencer that are not processed and that its last answered
\* request did not cover
RecordMissed(h, u, processed, found) ==
    IF u # h.watch THEN h
    ELSE [h EXCEPT !.missed = (feed[u] \ processed) \ Range(found)]

\* one more fetch attempt (turn of the retry loop) of the watched influencer,
\* counted up to one past MAX_RETRIES
Attempt(h, u) ==
    IF u # h.watch THEN h
    ELSE [h EXCEPT !.attempts = IF @ <= MAX_RETRIES THEN @ + 1 ELSE @]

\* the for loop moves to the next influencer, or ends
NextInfluencer(t) ==
    IF t.idx < NumInfluencers
    THEN [t EXCEPT !.pc = "pace", !.idx = @ + 1]
    ELSE [t EXCEPT !.pc = "cooldown"]

\* lines 257-280 up to the first await: the code after the retry loop
AfterRetryLoop(t) ==
    LET t1 == [t EXCEPT !.error_counts[t.idx] = 0]
    IN  IF t1.user = "unbound" THEN NextInfluencer(t1)          \* UnboundLocalError, line 327
        ELSE IF t1.user = "none" THEN NextInfluencer(t1)        \* continue, line 261
        ELSE IF ~t1.tweetsBound THEN NextInfluencer(t1)         \* UnboundLocalError, line 327
        ELSE IF t1.tweets # <<>> THEN [t1 EXCEPT !.pc = "collect", !.todo = t1.tweets]
        ELSE [t1 EXCEPT !.pc = "batch"]

\* the code after the retry loop raises (UnboundLocalError), which line 327
\* catches and counts
AfterRetryLoopRaises(t) ==
    t.user = "unbound" \/ (t.user # "none" /\ ~t.tweetsBound)

\* fetch_tweets starts: the twitter rate check, then the load of the file.
\* A NameError of the check is raised out of fetch_tweets (pc "raised"); the
\* next firing starts the job again.
TwStart ==
    /\ tw.pc \in {"idle", "raised"}
    /\ LET res == check_rate_limit(rl, "twitter", now)
       IN  /\ rl' = Forget(res.rl)
           /\ tw' = IF res.outcome = "granted"
                    THEN [TwLocals EXCEPT !.pc = "pace", !.idx = 1,
                                          !.processed_tweets = LoadProcessedTweets(twFile)]
                    ELSE [TwLocals EXCEPT !.pc = "raised"]
    /\ UNCHANGED <<feed, twFile, hist, bot_stats>>

\* the pacing sleep and the circuit-breaker check of one influencer
TwPace ==
    /\ tw.pc = "pace"
    /\ tw' = IF tw.error_counts[tw.idx] >= CIRCUIT_BREAKER_THRESHOLD
             THEN NextInfluencer(tw)
             ELSE [tw EXCEPT !.pc = "getUser", !.retries = 0]
    /\ UNCHANGED <<rl, feed, twFile, hist, bot_stats>>

\* the except tweepy.HTTPException handler of the retry loop, lines 239-255;
\* hdr says whether the error response carries the two rate-limit headers
HttpError(h, hdr, rem, reset) ==
    IF ~hdr
    THEN \* int(None): TypeError, caught at line 327
         /\ rl' = rl
         /\ tw' = NextInfluencer(tw)
         /\ hist' = RecordFetch(h, tw.idx, FALSE)
         /\ bot_stats' = Inc(bot_stats, "errors_count")
    ELSE /\ rl' = update_from_headers(rl, "twitter", TRUE, rem, TRUE, reset)
         /\ IF rem = 0
            THEN /\ tw' = [tw EXCEPT !.pc = "getUser"]
                 /\ hist' = h
                 /\ bot_stats' = bot_stats
            ELSE IF tw.retries + 1 < MAX_RETRIES
            THEN /\ tw' = [tw EXCEPT !.pc = "getUser", !.retries = @ + 1]
                 /\ hist' = h
                 /\ bot_stats' = bot_stats
            ELSE /\ tw' = AfterRetryLoop([tw EXCEPT !.retries = @ + 1])
                 /\ hist' = RecordFetch(h, tw.idx, FALSE)
                 /\ bot_stats' = IF AfterRetryLoopRaises(tw)
                                 THEN Inc(bot_stats, "errors_count") ELSE bot_stats

\* client.get_user(username)
TwGetUser ==
    /\ tw.pc = "getUser"
    /\ \/ /\ tw' = [tw EXCEPT !.user = "ok", !.pc = "getTweets"]
          /\ hist' = Attempt(hist, tw.idx)
          /\ UNCHANGED <<rl, bot_stats>>
       \/ \* no user data: continue, retries unchanged
          /\ tw' = [tw EXCEPT !.user = "none"]
          /\ hist' = Attempt(hist, tw.idx)
          /\ UNCHANGED <<rl, bot_stats>>
       \/ \E hdr \in BOOLEAN, rem \in ProviderRemaining, reset \in ProviderReset :
             HttpError(Attempt(hist, tw.idx), hdr, rem, reset)
       \/ \* any other exception, caught at line 327
          /\ tw' = NextInfluencer(tw)
          /\ hist' = RecordFetch(hist, tw.idx, FALSE)
          /\ bot_stats' = Inc(bot_stats, "errors_count")
          /\ UNCHANGED rl
    /\ UNCHANGED <<feed, twFile>>

\* client.get_users_tweets(...), lines 205-238
TwGetTweets ==
    /\ tw.pc = "getTweets"
    /\ \/ \E rem \in ProviderRemaining, reset \in ProviderReset, included \in BOOLEAN :
             LET found == GetUsersTweets(tw.idx, tw.processed_tweets)
                 t1 == [tw EXCEPT !.tweets = found, !.tweetsBound = TRUE]
             IN  /\ rl' = update_from_headers(rl, "twitter", TRUE, rem, TRUE, reset)
                 /\ IF found = <<>>
                    THEN \* "No tweets found": continue, retries unchanged
                         /\ tw' = [t1 EXCEPT !.pc = "getUser"]
                         /\ hist' = RecordMissed(hist, tw.idx, tw.processed_tweets, found)
                         /\ bot_stats' = bot_stats
                    ELSE \* the loop over tweets.data rebinds user, then break
                         /\ tw' = AfterRetryLoop(
                                    [t1 EXCEPT !.user = IF included THEN "ok" ELSE "none"])
                         /\ hist' = RecordMissed(RecordFetch(hist, tw.idx, TRUE),
                                                 tw.idx, tw.processed_tweets, found)
                         /\ bot_stats' = bot_stats
       \/ \* a response without the rate-limit headers: int(None), line 327
          /\ tw' = NextInfluencer(tw)
          /\ hist' = RecordFetch(hist, tw.idx, FALSE)
          /\ bot_stats' = Inc(bot_stats, "errors_count")
          /\ UNCHANGED rl
       \/ \E hdr \in BOOLEAN, rem \in ProviderRemaining, reset \in ProviderReset :
             HttpError(hist, hdr, rem, reset)
    /\ UNCHANGED <<feed, twFile>>

\* one turn of the loop over tweets.data, lines 267-280
TwCollect ==
    /\ tw.pc = "collect"
    /\ LET id == Head(tw.todo)
           rest == Tail(tw.todo)
           after(t) == IF rest = <<>> THEN [t EXCEPT !.pc = "batch", !.todo = rest]
                       ELSE [t EXCEPT !.todo = rest]
       IN  IF id \in tw.processed_tweets
           THEN /\ tw' = after(tw)
                /\ rl' = rl
                /\ bot_stats' = bot_stats
           ELSE LET res == check_rate_limit(rl, "grok", now)
                    counted == Inc(bot_stats, "tweets_processed")
                IN  /\ rl' = Forget(res.rl)
                    /\ tw' = IF res.outcome = "granted"
                             THEN after([tw EXCEPT !.batch_tweets = Append(@, id)])
                             ELSE NextInfluencer(tw)        \* NameError, line 327
                    /\ bot_stats' = IF res.outcome = "granted" THEN counted
                                    ELSE Inc(counted, "errors_count")
    /\ UNCHANGED <<feed, twFile, hist>>

\* if batch_tweets: the batch is handed to grok_analyze
TwBatch ==
    /\ tw.pc = "batch"
    /\ IF tw.batch_tweets = <<>>
       THEN /\ tw' = NextInfluencer(tw)
            /\ hist' = hist
       ELSE /\ tw' = [tw EXCEPT !.pc = "analysis", !.inAnalysis = Range(tw.batch_tweets)]
            /\ hist' = [hist EXCEPT !.analysed =
                          [t \in TweetIds |-> IF t \in Range(tw.batch_tweets)
                                              THEN Bump(@[t]) ELSE @[t]]]
    /\ UNCHANGED <<rl, feed, twFile, bot_stats>>

\* grok_analyze returns; rate_limiter.log_request('grok')
TwAnalysed ==
    /\ tw.pc = "analysis"
    /\ \E up \in Upstreams(Len(tw.batch_tweets)) :
          tw' = [tw EXCEPT !.pc = "mark", !.inAnalysis = {}, !.i = 1,
                           !.analyses = grok_analyze(Len(tw.batch_tweets), up)]
    /\ rl' = Forget(log_request(rl, "grok", now))
    /\ UNCHANGED <<feed, twFile, hist, bot_stats>>

\* one turn of the loop over analyses, lines 289-295
TwMark_sendWhatever ==
    /\ tw.pc = "mark"
    /\ tw' = IF tw.i > Len(tw.analyses)
             THEN NextInfluencer(tw)
             ELSE [tw EXCEPT !.processed_tweets = @ \cup {tw.batch_tweets[tw.i]},
                             !.new_tweets_found = TRUE, !.pc = "send"]
    /\ UNCHANGED <<rl, feed, twFile, hist, bot_stats>>

TwMark ==
    /\ tw.pc = "mark"
    /\ tw' = IF tw.i > Len(tw.analyses)
             THEN NextInfluencer(tw)
             ELSE LET t1 == [tw EXCEPT !.processed_tweets = @ \cup {tw.batch_tweets[tw.i]},
                                       !.new_tweets_found = TRUE]
                  IN  IF tw.analyses[tw.i].relevant
                      THEN [t1 EXCEPT !.pc = "send"]
                      ELSE [t1 EXCEPT !.i = @ + 1]
    /\ UNCHANGED <<rl, feed, twFile, hist, bot_stats>>

\* send_to_telegram(message), lines 349-372: messages_sent is counted after
\* the awaited send_message returned; an exception of it (or of what comes
\* before it) is caught and printed
send_to_telegram_countsAttempts(s, ok) ==
    IF ~s.kept THEN s
    ELSE [Inc(s, "messages_sent") EXCEPT !.last_send = IF ok THEN "ok" ELSE "failed"]

send_to_telegram(s, ok) ==
    IF ~s.kept THEN s
    ELSE IF ok THEN [Inc(s, "messages_sent") EXCEPT !.last_send = "ok"]
    ELSE [s EXCEPT !.last_send = "failed"]

\* await send_to_telegram(formatted_msg): it catches its own errors
TwSend ==
    /\ tw.pc = "send"
    /\ tw' = [tw EXCEPT !.pc = "mark", !.i = @ + 1]
    /\ hist' = [hist EXCEPT !.sent[tw.batch_tweets[tw.i]] = Bump(@)]
    /\ \E ok \in BOOLEAN : bot_stats' = send_to_telegram(bot_stats, ok)
    /\ UNCHANGED <<rl, feed, twFile>>

\* the cool-down sleep, then the write of the file, lines 332-339; a
\* write_text that raises is caught and printed
TwPersist ==
    /\ tw.pc = "cooldown"
    /\ IF tw.new_tweets_found
       THEN \/ \E f \in WriteProcessedTweets(tw.processed_tweets) : twFile' = f
            \/ twFile' = twFile
       ELSE twFile' = twFile
    /\ tw' = TwLocals
    /\ UNCHANGED <<rl, feed, hist, bot_stats>>

\* the process stops and is started again: memory is lost, the file stays
TwCrash ==
    /\ hist.crashes < MaxCrashes
    /\ tw.pc \notin {"idle", "raised"}
    /\ hist' = [hist EXCEPT !.crashes = @ + 1, !.attempts = 0,
                            !.seenAtCrash = @ \cup tw.processed_tweets]
    /\ tw' = TwLocals
    /\ rl' = RateLimiterInit
    /\ bot_stats' = [BotStats EXCEPT !.kept = bot_stats.kept]
    /\ UNCHANGED <<feed, twFile>>

(***************************************************************************)
(* fetch_news (src/main.py), cut at its suspension points like             *)
(* fetch_tweets.  finnhub's client returns the parsed list of articles,    *)
(* which has no headers attribute, so update_from_headers gets {} and      *)
(* changes nothing.                                                        *)
(***************************************************************************)
NewsCategories == 1 .. NumCategories

ArticleIds == 1 .. MaxArticle

NoNewsFile == [exists |-> FALSE, ids |-> <<>>]

\* set(json.loads(PROCESSED_NEWS_FILE.read_text())) if the file exists else set()
LoadProcessedNews(file) == IF file.exists THEN Range(file.ids) ELSE {}

\* PROCESSED_NEWS_FILE.write_text(json.dumps(list(processed_news)))
WriteProcessedNews(processed) ==
    { [exists |-> TRUE, ids |-> o] : o \in Orderings(processed) }

NwLocals ==
    [ pc |-> "idle", cat |-> 0, processed_news |-> {}, new_news_found |-> FALSE,
      todo |-> <<>>, inAnalysis |-> {}, analysis |-> <<>> ]

\* permits: the granted finnhub checks of the running cycle that no request
\* has used yet; ungated: a request was issued without such a grant;
\* unsaved: the ids marked in cycles whose write of the file failed, until a
\* write succeeds; grokBefore: while an article is in analysis, remaining of
\* grok as it was before the rate check of that article (NoReset otherwise).
\* Of the running (or last) cycle: unseen, the ids its fetches returned that
\* were not in processed_news; relevant / irrelevant, the ids by the verdict
\* grok_analyze gave; sent, the ids send_to_telegram was called for (none:
\* fetch_news does not reach its send, see NwAnalysed); clean, no fetch, rate
\* check or analysis service has failed
NoNewsCycle ==
    [ unseen |-> {}, relevant |-> {}, irrelevant |-> {}, sent |-> {}, clean |-> TRUE ]

NoNewsHistory ==
    [ analysed |-> [a \in ArticleIds |-> 0], permits |-> 0, ungated |-> FALSE,
      cycle |-> NoNewsCycle, unsaved |-> {}, grokBefore |-> NoReset ]

\* the for loop moves to the next category, or ends
NextCategory(n) ==
    IF n.cat < NumCategories
    THEN [n EXCEPT !.pc = "fetch", !.cat = @ + 1, !.todo = <<>>]
    ELSE [n EXCEPT !.pc = "persist", !.todo = <<>>]

\* the loop over the articles goes on with the rest of the list
RestOfNews(n, rest) ==
    IF rest = <<>> THEN NextCategory(n) ELSE [n EXCEPT !.pc = "article", !.todo = rest]

\* fetch_news starts: the load of the file, then the finnhub rate check.
\* A NameError of the check is raised out of fetch_news (pc "raised").
NwStart ==
    /\ nw.pc \in {"idle", "raised"}
    /\ LET res == check_rate_limit(rl, "finnhub", now)
       IN  /\ rl' = Forget(res.rl)
           /\ nw' = IF res.outcome = "granted"
                    THEN [NwLocals EXCEPT !.pc = "fetch", !.cat = 1,
                                          !.processed_news = LoadProcessedNews(nwFile)]
                    ELSE [NwLocals EXCEPT !.pc = "raised"]
           /\ nhist' = [nhist EXCEPT !.permits = IF res.outcome = "granted" THEN 1 ELSE 0,
                                     !.cycle = NoNewsCycle]
    /\ UNCHANGED <<newsFeed, nwFile, bot_stats>>

\* finnhub_client.general_news(category, 0), lines 98-105
NwFetch ==
    /\ nw.pc = "fetch"
    /\ LET h1 == IF nhist.permits > 0
                 THEN [nhist EXCEPT !.permits = @ - 1]
                 ELSE [nhist EXCEPT !.ungated = TRUE]
       IN  \/ /\ nw' = RestOfNews(nw, NewestFirst(newsFeed[nw.cat]))
              /\ nhist' = [h1 EXCEPT !.cycle.unseen =
                                        @ \cup (newsFeed[nw.cat] \ nw.processed_news)]
              /\ bot_stats' = bot_stats
           \/ /\ nw' = NextCategory(nw)          \* the call raises, line 138
              /\ nhist' = [h1 EXCEPT !.cycle.clean = FALSE]
              /\ bot_stats' = Inc(bot_stats, "errors_count")
    /\ UNCHANGED <<rl, newsFeed, nwFile>>

\* one article, lines 107-120: skipped when seen, else the grok rate check
\* and the article is handed to grok_analyze
NwArticle ==
    /\ nw.pc = "article"
    /\ LET id == Head(nw.todo)
           rest == Tail(nw.todo)
       IN  IF id \in nw.processed_news
           THEN /\ nw' = RestOfNews(nw, rest)
                /\ UNCHANGED <<rl, nhist, bot_stats>>
           ELSE LET res == check_rate_limit(rl, "grok", now)
                    counted == Inc(bot_stats, "news_processed")
                IN  /\ rl' = Forget(res.rl)
                    /\ IF res.outcome = "granted"
                       THEN /\ nw' = [nw EXCEPT !.pc = "analysis", !.inAnalysis = {id}]
                            /\ nhist' = [nhist EXCEPT !.analysed[id] = Bump(@),
                                                      !.grokBefore = rl.remaining["grok"]]
                            /\ bot_stats' = counted
                       ELSE /\ nw' = NextCategory(nw)       \* NameError, line 138
                            /\ nhist' = [nhist EXCEPT !.cycle.clean = FALSE]
                            /\ bot_stats' = Inc(counted, "errors_count")
    /\ UNCHANGED <<newsFeed, nwFile>>

\* grok_analyze returns, lines 120-125.  It returns a list, so after the id
\* is added analysis.get raises AttributeError, caught at line 138: nothing
\* is sent and the rest of the category is dropped.
NwAnalysed ==
    /\ nw.pc = "analysis"
    /\ rl' = Forget(log_request(rl, "grok", now))
    /\ bot_stats' = Inc(bot_stats, "errors_count")
    /\ \E up \in Upstreams(1) :
          LET analysis == grok_analyze(1, up)
              answered == up.kind = "array" /\ Len(analysis) = 1
          IN  /\ nw' = NextCategory([nw EXCEPT !.inAnalysis = {},
                                               !.analysis = analysis,
                                               !.processed_news = @ \cup nw.inAnalysis,
                                               !.new_news_found = TRUE])
              /\ nhist' = [nhist EXCEPT
                    !.grokBefore = NoReset,
                    !.cycle.clean = @ /\ answered,
                    !.cycle.relevant =
                        IF answered /\ analysis[1].relevant THEN @ \cup nw.inAnalysis ELSE @,
                    !.cycle.irrelevant =
                        IF answered /\ analysis[1].relevant THEN @ ELSE @ \cup nw.inAnalysis]
    /\ UNCHANGED <<newsFeed, nwFile>>

\* the write of the file, lines 142-146; write_text can raise (the disk is
\* full, the file cannot be opened), which is caught and printed.  Either
\* way fetch_news returns and its local processed_news is gone.
NwPersist ==
    /\ nw.pc = "persist"
    /\ IF nw.new_news_found
       THEN \/ /\ \E f \in WriteProcessedNews(nw.processed_news) : nwFile' = f
               /\ nhist' = [nhist EXCEPT !.unsaved = {}]
            \/ /\ nwFile' = nwFile
               /\ nhist' = [nhist EXCEPT !.unsaved = nw.processed_news \ Range(nwFile.ids)]
       ELSE /\ nwFile' = nwFile
            /\ nhist' = nhist
    /\ nw' = NwLocals
    /\ UNCHANGED <<rl, newsFeed, bot_stats>>

(***************************************************************************)
(* main() (src/main.py): the scheduler's one job, fetch_tweets every 15     *)
(* minutes and first due at once, then the direct calls of fetch_tweets    *)
(* and fetch_news.  An invocation of fetch_tweets is kept here as its      *)
(* position in the loop over the influencers (0: not in flight); every     *)
(* turn of that loop awaits, so other coroutines run in between.  The      *)
(* scheduler counts the instances it started itself (max_instances is      *)
(* left at 1) and knows nothing of a direct call.                          *)
(***************************************************************************)
SchedInterval == TwitterWindow      \* minutes = 15, the length of twitter's window

\* the two invocations of fetch_tweets main() brings about: its own call and
\* the instance the scheduler starts
Invocations == {"direct", "sched"}

\* what an invocation of fetch_tweets holds between its load of the file and
\* its write of it: its place in the loop over the influencers (0: not in
\* flight; NumInfluencers + 1: the loop is over) and its locals
\* processed_tweets and new_tweets_found
NoInvocation == [idx |-> 0, processed_tweets |-> {}, new_tweets_found |-> FALSE]

MainInit ==
    [ pc |-> "boot", nextRun |-> NoReset, direct |-> 0, sched |-> 0,
      fired |-> 0, skipped |-> 0, newsRuns |-> 0,
      origin |-> NoReset, epoch |-> 0, visits |-> [u \in Influencers |-> 0],
      called |-> FALSE, inflight |-> [k \in Invocations |-> NoInvocation] ]

\* the parent interval (one period of the interval job, counted from the
\* first fire time) that time t lies in
EpochOf(m, t) == (t - m.origin) \div SchedInterval

\* history: a turn of the loop over the influencers begins for influencer u.
\* visits counts the turns per influencer in the current parent interval and
\* starts afresh with the first turn of the next one.
Visit(m, u) ==
    IF EpochOf(m, now) = m.epoch
    THEN [m EXCEPT !.visits[u] = Bump(@)]
    ELSE [m EXCEPT !.epoch = EpochOf(m, now),
                   !.visits = [v \in Influencers |-> IF v = u THEN 1 ELSE 0]]

\* the first fire time after t on the job's grid (missed runs are coalesced)
RECURSIVE NextFireTime(_, _)
NextFireTime(due, t) ==
    IF due > t THEN due ELSE NextFireTime(due + SchedInterval, t)

\* scheduler.add_job(fetch_tweets, ..., next_run_time = now), scheduler.start(),
\* and main goes on to "await fetch_tweets()", which runs to its first await
MainBoot ==
    /\ mn.pc = "boot"
    /\ mn' = Visit([mn EXCEPT !.pc = "tweets", !.nextRun = now, !.direct = 1,
                              !.origin = now], 1)

\* the scheduler wakes for a due run: dropped when later than the grace time,
\* skipped when an instance it started is still running, else started
SchedFire ==
    /\ mn.pc # "boot"
    /\ now >= mn.nextRun
    /\ LET m1 == [mn EXCEPT !.nextRun = NextFireTime(mn.nextRun, now)]
       IN  mn' = IF now - mn.nextRun > MisfireGrace \/ mn.sched > 0
                 THEN [m1 EXCEPT !.skipped = Bump(@)]
                 ELSE Visit([m1 EXCEPT !.sched = 1, !.fired = Bump(@)], 1)

\* the direct invocation of fetch_tweets moves on by one influencer; after
\* the last one it returns and main calls fetch_news
DirectAdvance ==
    /\ mn.direct > 0
    /\ mn' = IF mn.direct < NumInfluencers
             THEN Visit([mn EXCEPT !.direct = @ + 1], mn.direct + 1)
             ELSE [mn EXCEPT !.direct = 0, !.pc = "news", !.newsRuns = Bump(@)]

\* the invocation started by the scheduler moves on by one influencer
SchedAdvance ==
    /\ mn.sched > 0
    /\ mn' = IF mn.sched < NumInfluencers
             THEN Visit([mn EXCEPT !.sched = @ + 1], mn.sched + 1)
             ELSE [mn EXCEPT !.sched = 0]

\* "await fetch_news()" returns and main enters application.run_polling()
MainNews ==
    /\ mn.pc = "news"
    /\ mn' = [mn EXCEPT !.pc = "polling"]

(***************************************************************************)
(* The two invocations of fetch_tweets and the file they share, each kept  *)
(* as what it reads from and writes to PROCESSED_TWEETS_FILE: the load at  *)
(* its start, the ids it adds to its own processed_tweets in a turn of the *)
(* loop, the write at its end.  Every turn awaits, so the turns of the two *)
(* interleave.                                                             *)
(***************************************************************************)
\* an invocation starts, lines 148-162: main's direct call happens once, the
\* scheduler starts its instance whenever the last one has returned
FetchTweetsStart(k) ==
    /\ mn.inflight[k].idx = 0
    /\ k = "direct" => ~mn.called
    /\ mn' = [mn EXCEPT !.called = @ \/ k = "direct",
                        !.inflight[k] = [idx |-> 1,
                                         processed_tweets |-> LoadProcessedTweets(twFile),
                                         new_tweets_found |-> FALSE]]
    /\ UNCHANGED twFile

\* one turn of the loop over the influencers, lines 183-330: the fetch fails
\* or finds nothing, or the tweets above since_id are fetched and those the
\* analysis answered for (the first n) are added to processed_tweets
FetchTweetsTurn(k) ==
    LET v == mn.inflight[k]
    IN  /\ v.idx \in Influencers
        /\ \/ mn' = [mn EXCEPT !.inflight[k].idx = @ + 1]
           \/ LET found == GetUsersTweets(v.idx, v.processed_tweets)
              IN  \E n \in 1 .. Len(found) :
                    mn' = [mn EXCEPT !.inflight[k] =
                              [idx |-> v.idx + 1,
                               processed_tweets |->
                                   v.processed_tweets \cup { found[i] : i \in 1 .. n },
                               new_tweets_found |-> TRUE]]
        /\ UNCHANGED twFile

\* the end of an invocation, lines 332-339: the write of the file when
\* anything was added (it can fail, which is caught), and the return
FetchTweetsPersist(k) ==
    LET v == mn.inflight[k]
    IN  /\ v.idx = NumInfluencers + 1
        /\ IF v.new_tweets_found
           THEN \/ \E f \in WriteProcessedTweets(v.processed_tweets) : twFile' = f
                \/ twFile' = twFile
           ELSE twFile' = twFile
        /\ mn' = [mn EXCEPT !.inflight[k] = NoInvocation]

(***************************************************************************)
(* TwitterAPI (src/api/twitter.py): get_recent_tweets with its request     *)
(* tracking.  It is a synchronous method and waits with time.sleep, which  *)
(* holds the thread it runs on: the thread of the event loop that runs the *)
(* jobs (asyncio.run(main())).  A sleep ends with the clock at the wake-up *)
(* time or later.                                                          *)
(***************************************************************************)
max_retries == 3

base_delay == 2

\* random.uniform(0.5, 1.5), in halves
Jitters == {1, 2, 3}

\* the value get_recent_tweets returned: "list" (n: how many tweets) or
\* "none"; "unset" while it runs
NoResult == [kind |-> "unset", n |-> 0]

\* x-rate-limit-limit, x-rate-limit-reset as the provider can send them, the
\* clock at t
ProviderLimits == {0, 1, DefaultLimit}

ProviderResets(t) == {t - 1, t + 1, t + MaxResetAhead}

TwitterAPIInit ==
    [ pc |-> "idle", runs |-> 0, attempt |-> 0, feedCalls |-> 0, result |-> NoResult,
      rate |-> [known |-> FALSE, remaining |-> 0, reset_time |-> 0],
      stamps |-> <<>>, maxPerWindow |-> DefaultLimit,
      wakeAt |-> 0, wait |-> 0, hinted |-> FALSE, other |-> 0,
      audit |-> FALSE, issued |-> <<>>, issuedLimit |-> DefaultLimit ]

\* while self._request_timestamps and self._request_timestamps[0] < window_start: popleft()
RECURSIVE DropOld(_, _)
DropOld(stamps, start) ==
    IF stamps # <<>> /\ Head(stamps) < start THEN DropOld(Tail(stamps), start) ELSE stamps

\* history, kept when ta.audit: the times of the requests get_recent_tweets
\* issued in the _window_size seconds up to the last of them, t, that one
\* included, and the _max_requests_per_window in force when it was issued
Issue(a, t) ==
    IF ~a.audit THEN a
    ELSE [a EXCEPT !.issued = Append(DropOld(@, t - TwitterWindow + 1), t),
                   !.issuedLimit = a.maxPerWindow]

\* _track_request() called with the clock at t: the request times and the
\* clock after its sleeps
_track_request(stamps, maxPerWindow, t) ==
    LET s1 == DropOld(stamps, t - TwitterWindow)
        t1 == IF 10 * Len(s1) >= 9 * maxPerWindow /\ s1 # <<>>
                 /\ TwitterWindow - (t - s1[1]) > 0
              THEN t + (TwitterWindow - (t - s1[1]))
              ELSE t
        t2 == IF s1 # <<>> /\ t1 - s1[Len(s1)] < 1 THEN s1[Len(s1)] + 1 ELSE t1
        s2 == Append(s1, t2)
    IN  [ stamps |-> IF Len(s2) > DequeLen THEN Tail(s2) ELSE s2, now |-> t2 ]

\* the thread is inside time.sleep
Sleeping == ta.pc \in {"presleep", "backoff"}

\* get_recent_tweets is called: the check of the known rate limit, lines 159-168
TaStart ==
    /\ ta.pc \in {"idle", "returned"}
    /\ ta.runs < MaxRuns
    /\ LET t0 == [ta EXCEPT !.runs = @ + 1, !.attempt = 0, !.feedCalls = 0,
                            !.result = NoResult, !.wait = 0, !.hinted = FALSE]
       IN  ta' = IF ta.rate.known /\ ta.rate.remaining = 0 /\ now < ta.rate.reset_time
                 THEN [t0 EXCEPT !.pc = "presleep", !.wakeAt = ta.rate.reset_time + 1]
                 ELSE [t0 EXCEPT !.pc = "call"]
    /\ UNCHANGED now

\* time.sleep returns
TaWake ==
    /\ Sleeping
    /\ now' = IF now < ta.wakeAt THEN ta.wakeAt ELSE now
    /\ ta' = [ta EXCEPT !.pc = "call", !.wakeAt = 0, !.wait = 0, !.hinted = FALSE]

\* the except tweepy.TooManyRequests handler, lines 198-234, the clock at t;
\* hinted says whether the error carries x-rate-limit-reset
TooManyRequests_returnsNone(a, t, hinted, reset, jitter) ==
    LET a1 == [a EXCEPT !.attempt = @ + 1]
        backoff == (base_delay * (2 ^ (a1.attempt - 1)) * jitter) \div 2
    IN  IF a1.attempt >= max_retries
        THEN [a1 EXCEPT !.pc = "returned", !.result = [kind |-> "none", n |-> 0]]
        ELSE [a1 EXCEPT !.pc = "backoff", !.wait = backoff, !.wakeAt = t + backoff,
                        !.hinted = hinted]

TooManyRequests(a, t, hinted, reset, jitter) ==
    LET a1 == [a EXCEPT !.attempt = @ + 1,
                        !.rate = IF hinted
                                 THEN [known |-> TRUE, remaining |-> 0, reset_time |-> reset]
                                 ELSE @]
        backoff == (base_delay * (2 ^ (a1.attempt - 1)) * jitter) \div 2
        seconds_until_reset == (reset - t) + 1
        wait_time == IF hinted
                     THEN Min(backoff, IF seconds_until_reset > 1 THEN seconds_until_reset ELSE 1)
                     ELSE backoff
    IN  IF a1.attempt >= max_retries
        THEN [a1 EXCEPT !.pc = "returned", !.result = [kind |-> "list", n |-> 0]]
        ELSE [a1 EXCEPT !.pc = "backoff", !.wait = wait_time, !.wakeAt = t + wait_time,
                        !.hinted = hinted]

\* one turn of the while loop, lines 170-238: _track_request, the call of
\* the feed, and what follows it up to the return or the next sleep
TaCall ==
    /\ ta.pc = "call"
    /\ LET tr == _track_request(ta.stamps, ta.maxPerWindow, now)
           a0 == Issue([ta EXCEPT !.stamps = tr.stamps, !.feedCalls = @ + 1], tr.now)
       IN  /\ now' = tr.now
           /\ \/ \* a response; it may carry the three rate-limit headers
                 \E n \in {0, MaxTweet}, hdr \in BOOLEAN, limit \in ProviderLimits,
                    rem \in ProviderRemaining, reset \in ProviderResets(tr.now) :
                    /\ ~hdr => (limit = 0 /\ rem = 0 /\ reset = tr.now + 1)
                    /\ ta' = [a0 EXCEPT
                                !.pc = "returned",
                                !.result = [kind |-> "list", n |-> n],
                                !.rate = IF hdr THEN [known |-> TRUE, remaining |-> rem,
                                                      reset_time |-> reset]
                                         ELSE @,
                                !.maxPerWindow = IF hdr /\ limit > 0 THEN limit ELSE @]
              \/ \E hinted \in BOOLEAN, jitter \in Jitters,
                    reset \in ProviderResets(tr.now) :
                    /\ ~hinted => reset = tr.now + 1
                    /\ ta' = TooManyRequests(a0, tr.now, hinted, reset, jitter)
              \/ \* any other exception, line 236
                 ta' = [a0 EXCEPT !.pc = "returned", !.result = [kind |-> "list", n |-> 0]]

\* another job of the event loop takes a step
OtherJobStep ==
    /\ ~Sleeping
    /\ ta' = [ta EXCEPT !.other = Bump(@)]
    /\ UNCHANGED now

(***************************************************************************)
(* The specifications.                                                     *)
(***************************************************************************)

\* the limiter alone, called by any caller for one api
InitRL ==
    /\ subject \in Apis
    /\ now = StartTime
    /\ rl = RateLimiterInit
    /\ grants = [a \in Apis |-> <<>>]
    /\ updated = {}
    /\ calls = 0
    /\ last = NoCall
    /\ dsMem = NoSets
    /\ dsFile = NoFile
    /\ dsSnap = NoSets
    /\ dsLast = NoStoreOp
    /\ feed = [u \in Influencers |-> {}]
    /\ twFile = NoTweetsFile
    /\ tw = TwLocals
    /\ hist = NoHistory
    /\ newsFeed = [c \in NewsCategories |-> {}]
    /\ nwFile = NoNewsFile
    /\ nw = NwLocals
    /\ nhist = NoNewsHistory
    /\ mn = MainInit
    /\ ta = TwitterAPIInit
    /\ bot_stats = BotStats

NextRL ==
    \/ Tick /\ UNCHANGED <<dsVars, twVars, nwVars, mn, ta, bot_stats>>
    \/ CheckRateLimit(subject) /\ UNCHANGED <<dsVars, twVars, nwVars, mn, ta, bot_stats>>
    \/ LogRequest(subject) /\ UNCHANGED <<dsVars, twVars, nwVars, mn, ta, bot_stats>>
    \/ UpdateFromHeaders(subject) /\ UNCHANGED <<dsVars, twVars, nwVars, mn, ta, bot_stats>>
    \/ UpdateRateLimit(subject) /\ UNCHANGED <<dsVars, twVars, nwVars, mn, ta, bot_stats>>

SpecRL == InitRL /\ [][NextRL]_vars

\* the processed-id store alone, used by any caller
InitDS ==
    /\ subject = "grok"
    /\ now = StartTime
    /\ rl = RateLimiterInit
    /\ grants = [a \in Apis |-> <<>>]
    /\ updated = {}
    /\ calls = 0
    /\ last = NoCall
    /\ dsMem = NoSets
    /\ dsFile = NoFile
    /\ dsSnap = NoSets
    /\ dsLast = NoStoreOp
    /\ feed = [u \in Influencers |-> {}]
    /\ twFile = NoTweetsFile
    /\ tw = TwLocals
    /\ hist = NoHistory
    /\ newsFeed = [c \in NewsCategories |-> {}]
    /\ nwFile = NoNewsFile
    /\ nw = NwLocals
    /\ nhist = NoNewsHistory
    /\ mn = MainInit
    /\ ta = TwitterAPIInit
    /\ bot_stats = BotStats

NextDS ==
    \/ \E c \in Categories, x \in Ids : MarkSeen(c, x) /\ UNCHANGED <<rlVars, twVars, nwVars, mn, ta, bot_stats>>
    \/ SaveProcessedIds /\ UNCHANGED <<rlVars, twVars, nwVars, mn, ta, bot_stats>>
    \/ Restart /\ UNCHANGED <<rlVars, twVars, nwVars, mn, ta, bot_stats>>
    \/ LoadProcessedIds /\ UNCHANGED <<rlVars, twVars, nwVars, mn, ta, bot_stats>>

SpecDS == InitDS /\ [][NextDS]_vars

\* fetch_tweets, cycle after cycle, the clock advancing, the process restarting
InitTweets ==
    /\ subject = "twitter"
    /\ now = StartTime
    /\ rl = RateLimiterInit
    /\ grants = [a \in Apis |-> <<>>]
    /\ updated = {}
    /\ calls = 0
    /\ last = NoCall
    /\ dsMem = NoSets
    /\ dsFile = NoFile
    /\ dsSnap = NoSets
    /\ dsLast = NoStoreOp
    /\ feed \in { f \in [Influencers -> SUBSET TweetIds] :
                    \A u, v \in Influencers : u # v => f[u] \cap f[v] = {} }
    /\ twFile = NoTweetsFile
    /\ tw = TwLocals
    /\ hist = NoHistory
    /\ newsFeed = [c \in NewsCategories |-> {}]
    /\ nwFile = NoNewsFile
    /\ nw = NwLocals
    /\ nhist = NoNewsHistory
    /\ mn = MainInit
    /\ ta = TwitterAPIInit
    /\ bot_stats = BotStats

TwOther == <<subject, grants, updated, calls, last, dsVars, nwVars, mn, ta>>

NextTweets ==
    \/ Tick /\ UNCHANGED <<dsVars, twVars, nwVars, mn, ta, bot_stats>>
    \/ TwStart /\ UNCHANGED <<now, TwOther>>
    \/ TwPace /\ UNCHANGED <<now, TwOther>>
    \/ TwGetUser /\ UNCHANGED <<now, TwOther>>
    \/ TwGetTweets /\ UNCHANGED <<now, TwOther>>
    \/ TwCollect /\ UNCHANGED <<now, TwOther>>
    \/ TwBatch /\ UNCHANGED <<now, TwOther>>
    \/ TwAnalysed /\ UNCHANGED <<now, TwOther>>
    \/ TwMark /\ UNCHANGED <<now, TwOther>>
    \/ TwSend /\ UNCHANGED <<now, TwOther>>
    \/ TwPersist /\ UNCHANGED <<now, TwOther>>

SpecTweets == InitTweets /\ [][NextTweets]_vars

\* the same, and the process may stop and start again
NextRestart ==
    \/ NextTweets
    \/ TwCrash /\ UNCHANGED <<now, TwOther>>

SpecRestart == InitTweets /\ [][NextRestart]_vars

\* fetch_tweets, cycle after cycle, within one second of the clock: what the
\* loop over the analyses does with a verdict does not read the clock
NextCycle ==
    \/ TwStart /\ UNCHANGED <<now, TwOther>>
    \/ TwPace /\ UNCHANGED <<now, TwOther>>
    \/ TwGetUser /\ UNCHANGED <<now, TwOther>>
    \/ TwGetTweets /\ UNCHANGED <<now, TwOther>>
    \/ TwCollect /\ UNCHANGED <<now, TwOther>>
    \/ TwBatch /\ UNCHANGED <<now, TwOther>>
    \/ TwAnalysed /\ UNCHANGED <<now, TwOther>>
    \/ TwMark /\ UNCHANGED <<now, TwOther>>
    \/ TwSend /\ UNCHANGED <<now, TwOther>>
    \/ TwPersist /\ UNCHANGED <<now, TwOther>>

SpecCycle == InitTweets /\ [][NextCycle]_vars

\* the same as SpecTweets, the fetch attempts and the failed fetches of the
\* first influencer counted
InitBreaker ==
    /\ subject = "twitter"
    /\ now = StartTime
    /\ rl = RateLimiterInit
    /\ grants = [a \in Apis |-> <<>>]
    /\ updated = {}
    /\ calls = 0
    /\ last = NoCall
    /\ dsMem = NoSets
    /\ dsFile = NoFile
    /\ dsSnap = NoSets
    /\ dsLast = NoStoreOp
    /\ feed \in { f \in [Influencers -> SUBSET TweetIds] :
                    \A u, v \in Influencers : u # v => f[u] \cap f[v] = {} }
    /\ twFile = NoTweetsFile
    /\ tw = TwLocals
    /\ hist = [NoHistory EXCEPT !.watch = 1]
    /\ newsFeed = [c \in NewsCategories |-> {}]
    /\ nwFile = NoNewsFile
    /\ nw = NwLocals
    /\ nhist = NoNewsHistory
    /\ mn = MainInit
    /\ ta = TwitterAPIInit
    /\ bot_stats = BotStats

SpecBreaker == InitBreaker /\ [][NextTweets]_vars

\* fetch_news, run after run, the clock advancing
InitNews ==
    /\ subject = "finnhub"
    /\ now = StartTime
    /\ rl = RateLimiterInit
    /\ grants = [a \in Apis |-> <<>>]
    /\ updated = {}
    /\ calls = 0
    /\ last = NoCall
    /\ dsMem = NoSets
    /\ dsFile = NoFile
    /\ dsSnap = NoSets
    /\ dsLast = NoStoreOp
    /\ feed = [u \in Influencers |-> {}]
    /\ twFile = NoTweetsFile
    /\ tw = TwLocals
    /\ hist = NoHistory
    /\ newsFeed \in [NewsCategories -> SUBSET ArticleIds]
    /\ nwFile = NoNewsFile
    /\ nw = NwLocals
    /\ nhist = NoNewsHistory
    /\ mn = MainInit
    /\ ta = TwitterAPIInit
    /\ bot_stats = BotStats

NwOther == <<subject, grants, updated, calls, last, dsVars, twVars, mn, ta>>

NextNews ==
    \/ Tick /\ UNCHANGED <<dsVars, twVars, nwVars, mn, ta, bot_stats>>
    \/ NwStart /\ UNCHANGED <<now, NwOther>>
    \/ NwFetch /\ UNCHANGED <<now, NwOther>>
    \/ NwArticle /\ UNCHANGED <<now, NwOther>>
    \/ NwAnalysed /\ UNCHANGED <<now, NwOther>>
    \/ NwPersist /\ UNCHANGED <<now, NwOther>>

SpecNews == InitNews /\ [][NextNews]_vars

\* fetch_tweets and fetch_news as tasks of the one event loop, interleaved
\* at their awaits, within one second of the clock; the counters of
\* bot_stats are kept, until their sum is MaxCount.  Every influencer has one tweet of
\* its own and every category one article of its own.
InitStats ==
    /\ subject = "twitter"
    /\ now = StartTime
    /\ rl = RateLimiterInit
    /\ grants = [a \in Apis |-> <<>>]
    /\ updated = {}
    /\ calls = 0
    /\ last = NoCall
    /\ dsMem = NoSets
    /\ dsFile = NoFile
    /\ dsSnap = NoSets
    /\ dsLast = NoStoreOp
    /\ feed \in { f \in [Influencers -> SUBSET TweetIds] :
                    \A u \in Influencers : f[u] = {u} \cap TweetIds }
    /\ twFile = NoTweetsFile
    /\ tw = TwLocals
    /\ hist = NoHistory
    /\ newsFeed \in { f \in [NewsCategories -> SUBSET ArticleIds] :
                        \A c \in NewsCategories : f[c] = {c} \cap ArticleIds }
    /\ nwFile = NoNewsFile
    /\ nw = NwLocals
    /\ nhist = NoNewsHistory
    /\ mn = MainInit
    /\ ta = TwitterAPIInit
    /\ bot_stats = [BotStats EXCEPT !.kept = TRUE]

BelowCap ==
    bot_stats.tweets_processed + bot_stats.news_processed
        + bot_stats.messages_sent + bot_stats.errors_count < MaxCount

NextStats ==
    \/ BelowCap /\ TwStart /\ UNCHANGED <<now, TwOther>>
    \/ BelowCap /\ TwPace /\ UNCHANGED <<now, TwOther>>
    \/ BelowCap /\ TwGetUser /\ UNCHANGED <<now, TwOther>>
    \/ BelowCap /\ TwGetTweets /\ UNCHANGED <<now, TwOther>>
    \/ BelowCap /\ TwCollect /\ UNCHANGED <<now, TwOther>>
    \/ BelowCap /\ TwBatch /\ UNCHANGED <<now, TwOther>>
    \/ BelowCap /\ TwAnalysed /\ UNCHANGED <<now, TwOther>>
    \/ BelowCap /\ TwMark /\ UNCHANGED <<now, TwOther>>
    \/ BelowCap /\ TwSend /\ UNCHANGED <<now, TwOther>>
    \/ BelowCap /\ TwPersist /\ UNCHANGED <<now, TwOther>>
    \/ BelowCap /\ NwStart /\ UNCHANGED <<now, NwOther>>
    \/ BelowCap /\ NwFetch /\ UNCHANGED <<now, NwOther>>
    \/ BelowCap /\ NwArticle /\ UNCHANGED <<now, NwOther>>
    \/ BelowCap /\ NwAnalysed /\ UNCHANGED <<now, NwOther>>
    \/ BelowCap /\ NwPersist /\ UNCHANGED <<now, NwOther>>

SpecStats == InitStats /\ [][NextStats]_vars

\* main() from the start of the process, the clock advancing
InitMain ==
    /\ subject = "twitter"
    /\ now = StartTime
    /\ rl = RateLimiterInit
    /\ grants = [a \in Apis |-> <<>>]
    /\ updated = {}
    /\ calls = 0
    /\ last = NoCall
    /\ dsMem = NoSets
    /\ dsFile = NoFile
    /\ dsSnap = NoSets
    /\ dsLast = NoStoreOp
    /\ feed = [u \in Influencers |-> {}]
    /\ twFile = NoTweetsFile
    /\ tw = TwLocals
    /\ hist = NoHistory
    /\ newsFeed = [c \in NewsCategories |-> {}]
    /\ nwFile = NoNewsFile
    /\ nw = NwLocals
    /\ nhist = NoNewsHistory
    /\ mn = MainInit
    /\ ta = TwitterAPIInit
    /\ bot_stats = BotStats

MainOther == <<subject, rl, grants, updated, calls, last, dsVars, twVars, nwVars, ta, bot_stats>>

NextMain ==
    \/ Tick /\ UNCHANGED <<dsVars, twVars, nwVars, mn, ta, bot_stats>>
    \/ MainBoot /\ UNCHANGED <<now, MainOther>>
    \/ SchedFire /\ UNCHANGED <<now, MainOther>>
    \/ DirectAdvance /\ UNCHANGED <<now, MainOther>>
    \/ SchedAdvance /\ UNCHANGED <<now, MainOther>>
    \/ MainNews /\ UNCHANGED <<now, MainOther>>

SpecMain == InitMain /\ [][NextMain]_vars

\* the same; the event loop and the clock keep going while anything can run
SpecMainLive == SpecMain /\ WF_vars(NextMain)

\* the invocations of fetch_tweets that main() brings about, interleaved at
\* their awaits, within one second of the clock
InitOverlap ==
    /\ subject = "twitter"
    /\ now = StartTime
    /\ rl = RateLimiterInit
    /\ grants = [a \in Apis |-> <<>>]
    /\ updated = {}
    /\ calls = 0
    /\ last = NoCall
    /\ dsMem = NoSets
    /\ dsFile = NoFile
    /\ dsSnap = NoSets
    /\ dsLast = NoStoreOp
    /\ feed \in { f \in [Influencers -> SUBSET TweetIds] :
                    \A u, v \in Influencers : u # v => f[u] \cap f[v] = {} }
    /\ twFile = NoTweetsFile
    /\ tw = TwLocals
    /\ hist = NoHistory
    /\ newsFeed = [c \in NewsCategories |-> {}]
    /\ nwFile = NoNewsFile
    /\ nw = NwLocals
    /\ nhist = NoNewsHistory
    /\ mn = MainInit
    /\ ta = TwitterAPIInit
    /\ bot_stats = BotStats

OverlapOther ==
    <<subject, now, rl, grants, updated, calls, last, dsVars, feed, tw, hist, nwVars, ta,
      bot_stats>>

NextOverlap ==
    \/ \E k \in Invocations : FetchTweetsStart(k) /\ UNCHANGED OverlapOther
    \/ \E k \in Invocations : FetchTweetsTurn(k) /\ UNCHANGED OverlapOther
    \/ \E k \in Invocations : FetchTweetsPersist(k) /\ UNCHANGED OverlapOther

SpecOverlap == InitOverlap /\ [][NextOverlap]_vars

\* TwitterAPI.get_recent_tweets, called again and again on the event loop
InitAPI ==
    /\ subject = "twitter"
    /\ now = StartTime
    /\ rl = RateLimiterInit
    /\ grants = [a \in Apis |-> <<>>]
    /\ updated = {}
    /\ calls = 0
    /\ last = NoCall
    /\ dsMem = NoSets
    /\ dsFile = NoFile
    /\ dsSnap = NoSets
    /\ dsLast = NoStoreOp
    /\ feed = [u \in Influencers |-> {}]
    /\ twFile = NoTweetsFile
    /\ tw = TwLocals
    /\ hist = NoHistory
    /\ newsFeed = [c \in NewsCategories |-> {}]
    /\ nwFile = NoNewsFile
    /\ nw = NwLocals
    /\ nhist = NoNewsHistory
    /\ mn = MainInit
    /\ ta = TwitterAPIInit
    /\ bot_stats = BotStats

APIOther == <<subject, rl, grants, updated, calls, last, dsVars, twVars, nwVars, mn, bot_stats>>

NextAPI ==
    \/ Tick /\ UNCHANGED <<dsVars, twVars, nwVars, mn, ta, bot_stats>>
    \/ TaStart /\ UNCHANGED APIOther
    \/ TaWake /\ UNCHANGED APIOther
    \/ TaCall /\ UNCHANGED APIOther
    \/ OtherJobStep /\ UNCHANGED APIOther

SpecAPI == InitAPI /\ [][NextAPI]_vars

\* the same, the times of the issued requests kept
InitAudit ==
    /\ subject = "twitter"
    /\ now = StartTime
    /\ rl = RateLimiterInit
    /\ grants = [a \in Apis |-> <<>>]
    /\ updated = {}
    /\ calls = 0
    /\ last = NoCall
    /\ dsMem = NoSets
    /\ dsFile = NoFile
    /\ dsSnap = NoSets
    /\ dsLast = NoStoreOp
    /\ feed = [u \in Influencers |-> {}]
    /\ twFile = NoTweetsFile
    /\ tw = TwLocals
    /\ hist = NoHistory
    /\ newsFeed = [c \in NewsCategories |-> {}]
    /\ nwFile = NoNewsFile
    /\ nw = NwLocals
    /\ nhist = NoNewsHistory
    /\ mn = MainInit
    /\ ta = [TwitterAPIInit EXCEPT !.audit = TRUE]
    /\ bot_stats = BotStats

SpecAudit == InitAudit /\ [][NextAPI]_vars

(***************************************************************************)
(* Claims about the rate limiter, checked under SpecRL.                    *)
(***************************************************************************)

\* the number of grants of api inside the window of length Window(api) that
\* starts at its i-th recorded grant
GrantsInWindowFrom(api, i) ==
    Cardinality({ j \in DOMAIN grants[api] :
                    /\ grants[api][j] >= grants[api][i]
                    /\ grants[api][j] < grants[api][i] + Window(api) })

\* C1: for calls of check_rate_limit on one source at non-decreasing times,
\* with no provider update in between, the grants inside any sliding window
\* of length window never exceed max_requests.
C1_SlidingWindowBudget ==
    \A a \in Apis :
        a \notin updated =>
            \A i \in DOMAIN grants[a] : GrantsInWindowFrom(a, i) <= MaxRequests(a)

\* C7: a check_rate_limit made after the window's end (now > last_reset +
\* window) sets remaining to max_requests once (the grant then takes one)
\* and starts a new window at now; a check inside the window resets nothing:
\* last_reset stays and remaining only loses what the grant takes.
C7_ResetOncePerWindow ==
    [][ \A a \in Apis :
          (last'.op = "check" /\ last'.api = a) =>
             IF now > WindowEnd(rl, a)
             THEN /\ last'.outcome = "granted"
                  /\ rl'.remaining[a] = MaxRequests(a) - 1
                  /\ rl'.last_reset[a] = now
             ELSE /\ rl'.last_reset[a] = rl.last_reset[a]
                  /\ rl'.remaining[a] = IF last'.outcome = "granted"
                                        THEN rl.remaining[a] - 1
                                        ELSE rl.remaining[a] ]_vars

\* a check has just refilled a budget that had been used up before: the
\* window starts now, one request of the new budget is taken, and the log
\* holds more requests than one budget allows
C7_Witness ==
    /\ last.op = "check"
    /\ last.outcome = "granted"
    /\ last.api \notin updated
    /\ rl.last_reset[last.api] = now
    /\ rl.remaining[last.api] = MaxRequests(last.api) - 1
    /\ Len(grants[last.api]) >= 2
    /\ Len(rl.requests[last.api]) > MaxRequests(last.api)

\* C8 (scenario B): with remaining = 0 and the window ending some seconds
\* ahead, check_rate_limit returns can_request = False (a value, "denied");
\* once the clock has advanced by exactly those seconds (now = window end),
\* the next check_rate_limit returns can_request = True.
C8_ScenarioB ==
    [][ \A a \in Apis :
          (last'.op = "check" /\ last'.api = a /\ rl.remaining[a] = 0) =>
             /\ now < WindowEnd(rl, a) => last'.outcome = "denied"
             /\ now = WindowEnd(rl, a) => last'.outcome = "granted" ]_vars

\* C9: in every reachable state, for every source, 0 <= remaining <= max_requests.
C9_RemainingInRange ==
    \A a \in Apis : 0 <= rl.remaining[a] /\ rl.remaining[a] <= MaxRequests(a)

\* C10: after update_from_headers / update_rate_limit reported remaining r
\* and reset time T, remaining equals r and the window ends at T.
C10_AuthoritativeWins ==
    (last.op \in {"headers", "update"} /\ last.rem # NoReset /\ last.reset # NoReset) =>
       /\ rl.remaining[last.api] = last.rem
       /\ WindowEnd(rl, last.api) = last.reset

(***************************************************************************)
(* Claims about the processed-id store, checked under SpecDS.              *)
(***************************************************************************)

\* C6: an id marked seen in category c is in c's set right afterwards; and
\* after save_processed_ids, a restart and load_processed_ids, every id that
\* was in c's set at the save is in the loaded set, unless c held more than
\* the cap at the save (the id was then evicted by the cap).
C6_SeenSurvivesRestart ==
    /\ dsLast.op = "mark" => dsLast.id \in dsMem[dsLast.cat]
    /\ dsLast.op = "load" =>
          \A c \in Categories :
              /\ dsMem[c] \subseteq dsSnap[c]
              /\ \A x \in dsSnap[c] :
                    x \in dsMem[c] \/ Cardinality(dsSnap[c]) > Cap

\* a load after a restart that finds both categories saved, one of them at the cap
C6_Witness ==
    /\ dsLast.op = "load"
    /\ dsFile.exists
    /\ Cardinality(dsSnap["news"]) = Cap
    /\ dsMem["news"] = dsSnap["news"]
    /\ dsMem["tweets"] # {}

(***************************************************************************)
(* Claims about the polling jobs, checked under SpecTweets, SpecRestart,   *)
(* SpecBreaker and SpecNews.                                               *)
(***************************************************************************)

\* C2: an id that was in the seen set when the process stopped is, after the
\* restart, never handed to analysis and never sent again.
C2_NoRealertAfterRestart ==
    \A id \in hist.seenAtCrash :
        /\ id \notin tw.inAnalysis
        /\ ~(tw.pc = "send" /\ tw.batch_tweets[tw.i] = id)

\* C3: without a crash, every id is handed to analysis at most once and
\* send_to_telegram is called at most once for it, across cycles and as the
\* loop of one fetch_tweets cycle moves from one influencer to the next.
C3_ProcessedAtMostOnce ==
    hist.crashes = 0 =>
        /\ \A t \in TweetIds : hist.analysed[t] <= 1 /\ hist.sent[t] <= 1
        /\ \A a \in ArticleIds : nhist.analysed[a] <= 1

\* C4: no item, article or tweet, is in analysis (handed to grok_analyze)
\* while its id is absent from the seen set.
C4_MarkedBeforeAnalysis ==
    /\ nw.inAnalysis \subseteq nw.processed_news
    /\ tw.inAnalysis \subseteq tw.processed_tweets

\* C5: once the fetches of one influencer have failed CIRCUIT_BREAKER_THRESHOLD
\* times in a row, over however many cycles, the skip check is true and its
\* fetch is skipped: the job never enters that influencer's retry loop.
C5_BreakerOpens ==
    ~ ( /\ tw.pc = "getUser"
        /\ tw.idx = hist.watch
        /\ hist.failStreak >= CIRCUIT_BREAKER_THRESHOLD )

\* C11: every request to a feed source is preceded by its own granted
\* check_rate_limit for that source: no request of fetch_news goes out
\* without a granted finnhub check that no earlier request has used.
C11_EveryRequestGated == ~nhist.ungated

\* C12: at no time are two invocations of fetch_tweets in flight together,
\* the direct startup invocation of main() included.
C12_NoOverlap == ~(mn.direct > 0 /\ mn.sched > 0)

\* C13: for one influencer (the watched one) in one cycle the retry loop makes at most
\* MAX_RETRIES fetch attempts, whatever the outcomes of the fetches.
C13_RetriesBounded == hist.attempts <= MAX_RETRIES

\* C14: no error raised during a cycle aborts a polling job: fetch_tweets
\* and fetch_news never end by raising.
C14_JobsNeverRaise == tw.pc # "raised" /\ nw.pc # "raised"

\* C15 (scenario A): a cycle whose fetch returned 3 items, none seen before,
\* and in which the analysis found only the second relevant (and nothing
\* failed) ends with exactly one send, for the second item, and with all 3
\* ids in the persisted set.
C15_ScenarioA ==
    LET c == nhist.cycle
        second == NewestFirst(c.unseen)[2]
    IN  ( /\ nw.pc = "idle"
          /\ c.clean
          /\ Cardinality(c.unseen) = 3
          /\ c.relevant \subseteq {second}
          /\ second \notin c.irrelevant )
        => /\ c.sent = {second}
           /\ c.unseen \subseteq Range(nwFile.ids)

\* C16 (scenario C): when the analysis service returns malformed output for
\* an item, the item gets the default relevant = false verdict, no send is
\* made for it, and the job goes on to the subsequent items of the fetch.
\* (The increment of the error counter is not part of this formula.)
C16_ScenarioC ==
    [][ (nw.pc = "analysis" /\ nw'.analysis = <<Verdict(FALSE, "Analysis Failed")>>) =>
           /\ nw.inAnalysis \cap nhist'.cycle.sent = {}
           /\ Tail(nw.todo) # <<>> =>
                 (nw'.pc = "article" /\ nw'.todo = Tail(nw.todo)) ]_vars

\* C17: on malformed or empty upstream output the analysis gateway returns
\* the default verdict relevant = false, sentiment = neutral, score = 5,
\* impact = medium, direction = neutral, assets = []: every failure verdict
\* grok_analyze has handed to the news job has these values.
C17_DefaultVerdict ==
    \A i \in DOMAIN nw.analysis :
        nw.analysis[i].headline = "Analysis Failed" =>
            /\ nw.analysis[i].relevant = FALSE
            /\ nw.analysis[i].sentiment = "neutral"
            /\ nw.analysis[i].score = 5
            /\ nw.analysis[i].impact = "medium"
            /\ nw.analysis[i].direction = "neutral"
            /\ nw.analysis[i].assets = <<>>

\* C18: for a batch of n texts grok_analyze returns exactly n verdicts,
\* whatever number of entries the service's answer has: while the job pairs
\* verdicts with batch items there are as many verdicts as batch items.
C18_OneVerdictPerText ==
    tw.pc \in {"mark", "send"} => Len(tw.analyses) = Len(tw.batch_tweets)

C20_NeverAboveCap ==
    /\ \A c \in DOMAIN dsMem : Cardinality(dsMem[c]) <= Cap
    /\ Len(dsFile.news) <= Cap /\ Len(dsFile.tweets) <= Cap
    /\ Cardinality(nw.processed_news) <= Cap
    /\ Len(nwFile.ids) <= Cap
    /\ Cardinality(tw.processed_tweets) <= Cap
    /\ Len(twFile.ids) <= Cap

\* C21: when a category holds more than the cap, save_processed_ids keeps the
\* most recently marked ids by insertion order: the id inserted last, by the
\* mark made just before the save, is among the ids written for its category.
C21_NewestKept ==
    [][ ( /\ dsLast.op = "mark" /\ dsLast.fresh
          /\ dsLast'.op = "save"
          /\ Cardinality(dsMem[dsLast.cat]) > Cap )
        => dsLast.id \in Range(IF dsLast.cat = "news" THEN dsFile'.news ELSE dsFile'.tweets) ]_vars

(***************************************************************************)
(* Claims about main() and the scheduler, checked under SpecMain and       *)
(* SpecMainLive.                                                           *)
(***************************************************************************)

\* C22: after startup the scheduler triggers both jobs again at their own
\* interval.  For the news job: fetch_news is eventually started a second
\* time (fetch_tweets has its interval job; see SchedFire).
C22_NewsRecurs == <>(mn.newsRuns >= 2)

\* C23: with no failures every tracked account is visited exactly once in a
\* parent interval (one period of the interval job), the record of the visits
\* starting afresh with the next one: no account is visited a second time in
\* the same parent interval.
C23_VisitedOncePerEpoch == \A u \in Influencers : mn.visits[u] <= 1

\* C24: when the save at the end of a cycle fails, the ids marked in that
\* cycle stay in memory and the next cycle still treats them as seen: while
\* a later cycle of fetch_news runs, the ids whose save failed are in its
\* processed_news.
C24_UnsavedStillSeen ==
    nw.pc \notin {"idle", "raised"} => nhist.unsaved \subseteq nw.processed_news

\* C25: the seen set is saved at the end of every cycle and on shutdown: once
\* the process has been shut down, while or after a cycle of fetch_tweets ran,
\* processed_tweets.json holds every id that had been marked seen by then.
C25_SavedOnShutdown ==
    hist.crashes > 0 => hist.seenAtCrash \subseteq Range(twFile.ids)

(***************************************************************************)
(* Claims about TwitterAPI.get_recent_tweets, checked under SpecAPI.       *)
(***************************************************************************)

Turns(a) ==
    IF a.pc = "presleep" THEN 2 * max_retries + 1
    ELSE IF a.pc = "call" THEN 2 * (max_retries - a.attempt)
    ELSE IF a.pc = "backoff" THEN 2 * (max_retries - a.attempt) + 1
    ELSE 0

C29_WaitFollowsHint ==
    (ta.pc = "backoff" /\ ta.hinted) =>
        /\ ta.wait >= 1
        /\ ta.wakeAt >= ta.rate.reset_time

\* C28: a check_rate_limit that finds remaining = 0 inside an unexpired window
\* returns can_request = False with a wait that is not negative, as a value
\* and not as a raised error: every check ends "granted" or "denied".
C28_DenialIsAValue ==
    last.op = "check" => last.outcome \in {"granted", "denied"}

\* C30: every counter of bot_stats is monotonically non-decreasing over any
\* interleaving of the jobs' steps and the sends, and messages_sent grows by
\* one exactly in a step that is a send that succeeded: a failed send, and
\* every other step, leaves it as it was.
C30_CountersMonotone ==
    [][ LET sent == tw.pc = "send" /\ tw'.pc # "send" /\ bot_stats'.last_send = "ok"
        IN  /\ \A c \in Counters : bot_stats'[c] >= bot_stats[c]
            /\ sent => bot_stats'.messages_sent = bot_stats.messages_sent + 1
            /\ ~sent => bot_stats'.messages_sent = bot_stats.messages_sent ]_vars

\* a send succeeded, a later one failed, and both jobs have counted
C30_Witness ==
    /\ bot_stats.messages_sent = 1
    /\ bot_stats.last_send = "failed"
    /\ bot_stats.tweets_processed >= 1
    /\ bot_stats.news_processed >= 1
    /\ bot_stats.errors_count >= 1

\* C31: the code after the retry loop of fetch_tweets works on the results of
\* the influencer at hand: when the loop ends because all MAX_RETRIES
\* attempts failed, error_counts is not reset on the strength of an earlier
\* influencer's success and no user / tweets result left over from an earlier
\* influencer is used, so the tweets the loop over tweets.data goes through
\* are tweets of the influencer at hand.
C31_NoLeftoverResult ==
    tw.pc = "collect" => Range(tw.todo) \subseteq feed[tw.idx]

\* C32: an analysis request takes exactly one unit of the grok budget: for
\* an article analysed in fetch_news, remaining of grok after the request
\* was logged is one less than it was before the rate check of that article.
C32_OneUnitPerAnalysis ==
    [][ (nw.pc = "analysis" /\ nw'.pc # "analysis")
          => rl'.remaining["grok"] = nhist.grokBefore - 1 ]_vars

\* C33: the file of processed tweet ids only grows from save to save, also
\* when two invocations of fetch_tweets that each loaded the file at their
\* start are in flight together: an id that is in the file is in it after
\* every later write.
C33_FileOnlyGrows ==
    [][ Range(twFile.ids) \subseteq Range(twFile'.ids) ]_vars

\* C34: a fetch for an account requests every tweet of the account that is
\* not in the processed set, whatever ids of other accounts the set holds:
\* no answered request for the watched account leaves out an unprocessed
\* tweet of it, so every such tweet is fetched and goes on to the analysis.
C34_NothingMissed ==
    hist.missed = {}

\* C35: a denied check_rate_limit changes nothing: after a check that did
\* not grant, remaining, last_reset and the recorded request times of the
\* source are what they were before the call; and no check, granted or
\* denied, changes anything of another source.
C35_DenialChangesNothing ==
    [][ (last'.op = "check" /\ calls' = calls + 1)
          => /\ last'.outcome # "granted" => rl' = rl
             /\ \A a \in Apis \ {last'.api} :
                   /\ rl'.remaining[a] = rl.remaining[a]
                   /\ rl'.last_reset[a] = rl.last_reset[a]
                   /\ rl'.requests[a] = rl.requests[a] ]_vars

\* a check of a source with requests on record was denied, after the source's
\* window had been reset at least once
C35_Witness ==
    /\ last.op = "check"
    /\ last.outcome # "granted"
    /\ rl.remaining[last.api] = 0
    /\ rl.last_reset[last.api] # NoReset
    /\ rl.requests[last.api] # <<>>

\* C36: TwitterAPI never issues more than _max_requests_per_window requests
\* within a period of _window_size seconds: the requests issued in the
\* _window_size seconds up to a request, that request included, are at most
\* the limit in force when it was issued.
C36_WithinWindowLimit ==
    Len(ta.issued) <= ta.issuedLimit

====
